---- MODULE Spec2Model ----
(***************************************************************************)
(* Keyboard teleoperation loop of nodes/teleop_key.py (class CozmoTeleop). *)
(*                                                                         *)
(* Numbers.  head_angle and lift_height only ever hold multiples of 0.5    *)
(* (20.0, 32.0, the clamp values and +/- 2.0 steps), which binary floating *)
(* point adds and compares exactly, so both are kept as integers in units  *)
(* of 0.5: 44.5 is 89, -25.0 is -50, a 2.0 step is 4.  The speeds lin_vel  *)
(* and ang_vel are kept in units of 0.0001.  The quotient published on the *)
(* lift_height topic is kept as a fraction in lowest terms.                *)
(***************************************************************************)
EXTENDS Integers, Sequences, FiniteSets

VARIABLES pc, term, stdin, is_shutdown, lin_vel, ang_vel, key, cmd_vel,
          head_changed, lift_changed, head_angle, lift_height, published,
          restored, r_streak, last_step

vars == <<pc, term, stdin, is_shutdown, lin_vel, ang_vel, key, cmd_vel,
          head_changed, lift_changed, head_angle, lift_height, published,
          restored, r_streak, last_step>>

(* ------------------------------ constants ------------------------------ *)

MIN_HEAD_ANGLE == -50
MAX_HEAD_ANGLE == 89
STD_HEAD_ANGLE == 40
SUM_HEAD_ANGLE == MAX_HEAD_ANGLE - MIN_HEAD_ANGLE

MIN_LIFT_HEIGHT == 64
MAX_LIFT_HEIGHT == 184
STD_LIFT_HEIGHT == 64
SUM_LIFT_HEIGHT == MAX_LIFT_HEIGHT - MIN_LIFT_HEIGHT

HEAD_ADJUSTMENT_RATE == 4
LIFT_ADJUSTMENT_RATE == 4

\* rospy.get_param('~lin_vel', 0.2) and rospy.get_param('~ang_vel', 1.5757),
\* in units of 0.0001: the default, or a value set on the parameter server
DefaultLinVel == 2000
DefaultAngVel == 15757
Speeds == {<<DefaultLinVel, DefaultAngVel>>, <<5000, 10000>>}

\* most characters the terminal input queue holds at once in the model
MaxPending == 1

\* longest run of r ticks from start-up that r_streak counts
MaxStreak == 15

(* ------------------------------ the keys ------------------------------- *)

CtrlC == "^C"
\* sys.stdin.read(1) at end of input
NoKey == ""
\* the local variable key before the first get_key()
Unbound == "unbound"

\* characters that can be typed: the twelve the loop tests for and two it
\* does not (a lower-case and an upper-case one)
Keys == {"w", "s", "a", "d", "r", "f", "v", "t", "g", "b", CtrlC, "x", "R"}

\* r_streak when some tick so far was not an r tick, or the run of r ticks
\* is longer than MaxStreak
Off == MaxStreak + 1

\* last_step when the last dispatched tick was neither an r nor a v tick
NoStep == [key |-> "none", from |-> 0]

\* stdin at end of input (terminal hung up); otherwise stdin is the number
\* of characters waiting in the terminal's input queue
Eof == -1

(* ----------------------------- arithmetic ------------------------------ *)

Abs(n) == IF n < 0 THEN -n ELSE n

RECURSIVE GCD(_, _)
GCD(a, b) == IF b = 0 THEN a ELSE GCD(b, a % b)

\* the quotient n / d (d > 0) in lowest terms
Quot(n, d) ==
    LET g == GCD(d, Abs(n)) IN [num |-> n \div g, den |-> d \div g]

(* ----------------------------- the terminal ---------------------------- *)

\* tty.setraw(sys.stdin.fileno())
set_terminal(t) == "raw"

\* termios.tcsetattr(sys.stdin, termios.TCSADRAIN, CozmoTeleop.settings):
\* settings is the mode captured by __init__
reset_terminal_keeps(t) == t
reset_terminal(t) == "cooked"

\* atexit.register(self.reset_terminal), once, in __init__
ExitHandlersNone == <<>>
ExitHandlersTwice == <<"reset_terminal", "reset_terminal">>
ExitHandlers == <<"reset_terminal">>

\* the mode after running the exit handlers hs in mode t
RECURSIVE RunHandlers(_, _)
RunHandlers(hs, t) ==
    IF hs = <<>> THEN t ELSE RunHandlers(Tail(hs), reset_terminal(t))

(* ------------------------- the steps of a tick ------------------------- *)

\* Twist(): all fields zero
Twist == [linear_x |-> 0, angular_z |-> 0]

\* if key == '\x03'
IsInterruptAlsoX(k) == k \in {CtrlC, "x"}
IsInterruptNever(k) == FALSE
IsInterrupt(k) == k = CtrlC

\* the w / s / a / d branches
CmdVelAfterSForward(k, cv) ==
    CASE k = "w" -> [cv EXCEPT !.linear_x = lin_vel]
      [] k = "s" -> [cv EXCEPT !.linear_x = lin_vel]
      [] k = "a" -> [cv EXCEPT !.angular_z = ang_vel]
      [] k = "d" -> [cv EXCEPT !.angular_z = -ang_vel]
      [] OTHER -> cv
CmdVelAfter(k, cv) ==
    CASE k = "w" -> [cv EXCEPT !.linear_x = lin_vel]
      [] k = "s" -> [cv EXCEPT !.linear_x = -lin_vel]
      [] k = "a" -> [cv EXCEPT !.angular_z = ang_vel]
      [] k = "d" -> [cv EXCEPT !.angular_z = -ang_vel]
      [] OTHER -> cv

\* the r / f / v branches
HeadAfterNoUpperClamp(k, h) ==
    CASE k = "r" -> h + HEAD_ADJUSTMENT_RATE
      [] k = "f" -> STD_HEAD_ANGLE
      [] k = "v" -> IF h - HEAD_ADJUSTMENT_RATE < MIN_HEAD_ANGLE
                    THEN MIN_HEAD_ANGLE ELSE h - HEAD_ADJUSTMENT_RATE
      [] OTHER -> h
HeadAfterCenterKeeps(k, h) ==
    CASE k = "r" -> IF h + HEAD_ADJUSTMENT_RATE > MAX_HEAD_ANGLE
                    THEN MAX_HEAD_ANGLE ELSE h + HEAD_ADJUSTMENT_RATE
      [] k = "f" -> IF h > STD_HEAD_ANGLE THEN h ELSE STD_HEAD_ANGLE
      [] k = "v" -> IF h - HEAD_ADJUSTMENT_RATE < MIN_HEAD_ANGLE
                    THEN MIN_HEAD_ANGLE ELSE h - HEAD_ADJUSTMENT_RATE
      [] OTHER -> h
HeadAfterRejectsOvershoot(k, h) ==
    CASE k = "r" -> IF h + HEAD_ADJUSTMENT_RATE > MAX_HEAD_ANGLE
                    THEN h ELSE h + HEAD_ADJUSTMENT_RATE
      [] k = "f" -> STD_HEAD_ANGLE
      [] k = "v" -> IF h - HEAD_ADJUSTMENT_RATE < MIN_HEAD_ANGLE
                    THEN MIN_HEAD_ANGLE ELSE h - HEAD_ADJUSTMENT_RATE
      [] OTHER -> h
HeadAfterNoLowerClamp(k, h) ==
    CASE k = "r" -> IF h + HEAD_ADJUSTMENT_RATE > MAX_HEAD_ANGLE
                    THEN MAX_HEAD_ANGLE ELSE h + HEAD_ADJUSTMENT_RATE
      [] k = "f" -> STD_HEAD_ANGLE
      [] k = "v" -> h - HEAD_ADJUSTMENT_RATE
      [] OTHER -> h
HeadAfterAnyCase(k, h) ==
    CASE k \in {"r", "R"} -> IF h + HEAD_ADJUSTMENT_RATE > MAX_HEAD_ANGLE
                             THEN MAX_HEAD_ANGLE ELSE h + HEAD_ADJUSTMENT_RATE
      [] k = "f" -> STD_HEAD_ANGLE
      [] k = "v" -> IF h - HEAD_ADJUSTMENT_RATE < MIN_HEAD_ANGLE
                    THEN MIN_HEAD_ANGLE ELSE h - HEAD_ADJUSTMENT_RATE
      [] OTHER -> h
HeadAfter(k, h) ==
    CASE k = "r" -> IF h + HEAD_ADJUSTMENT_RATE > MAX_HEAD_ANGLE
                    THEN MAX_HEAD_ANGLE ELSE h + HEAD_ADJUSTMENT_RATE
      [] k = "f" -> STD_HEAD_ANGLE
      [] k = "v" -> IF h - HEAD_ADJUSTMENT_RATE < MIN_HEAD_ANGLE
                    THEN MIN_HEAD_ANGLE ELSE h - HEAD_ADJUSTMENT_RATE
      [] OTHER -> h

\* head_changed = True in the r / f / v branches
HeadKeyNotCenter(k) == k \in {"r", "v"}
HeadKey(k) == k \in {"r", "f", "v"}

\* the t / g / b branches
LiftAfterNoLowerClamp(k, l) ==
    CASE k = "t" -> IF l + LIFT_ADJUSTMENT_RATE > MAX_LIFT_HEIGHT
                    THEN MAX_LIFT_HEIGHT ELSE l + LIFT_ADJUSTMENT_RATE
      [] k = "g" -> STD_LIFT_HEIGHT
      [] k = "b" -> l - LIFT_ADJUSTMENT_RATE
      [] OTHER -> l
LiftAfter(k, l) ==
    CASE k = "t" -> IF l + LIFT_ADJUSTMENT_RATE > MAX_LIFT_HEIGHT
                    THEN MAX_LIFT_HEIGHT ELSE l + LIFT_ADJUSTMENT_RATE
      [] k = "g" -> STD_LIFT_HEIGHT
      [] k = "b" -> IF l - LIFT_ADJUSTMENT_RATE < MIN_LIFT_HEIGHT
                    THEN MIN_LIFT_HEIGHT ELSE l - LIFT_ADJUSTMENT_RATE
      [] OTHER -> l

\* lift_changed = True in the t / g / b branches
LiftKey(k) == k \in {"t", "g", "b"}

\* (self.lift_height-MIN_LIFT_HEIGHT)/SUM_LIFT_HEIGHT
LiftDataNoOffset(l) == Quot(l, SUM_LIFT_HEIGHT)
LiftDataOverMax(l) == Quot(l - MIN_LIFT_HEIGHT, MAX_LIFT_HEIGHT)
LiftData(l) == Quot(l - MIN_LIFT_HEIGHT, SUM_LIFT_HEIGHT)

\* the publish calls of one tick, in the order they are made
PublishesMovingOnly(cv, hc, h, lc, l) ==
    (IF cv # Twist THEN <<[chan |-> "cmd_vel", data |-> cv]>> ELSE <<>>)
    \o (IF hc THEN <<[chan |-> "head_angle", data |-> h]>> ELSE <<>>)
    \o (IF lc THEN <<[chan |-> "lift_height", data |-> LiftData(l)]>> ELSE <<>>)
PublishesCmdVelLast(cv, hc, h, lc, l) ==
    (IF hc THEN <<[chan |-> "head_angle", data |-> h]>> ELSE <<>>)
    \o (IF lc THEN <<[chan |-> "lift_height", data |-> LiftData(l)]>> ELSE <<>>)
    \o <<[chan |-> "cmd_vel", data |-> cv]>>
Publishes(cv, hc, h, lc, l) ==
    <<[chan |-> "cmd_vel", data |-> cv]>>
    \o (IF hc THEN <<[chan |-> "head_angle", data |-> h]>> ELSE <<>>)
    \o (IF lc THEN <<[chan |-> "lift_height", data |-> LiftData(l)]>> ELSE <<>>)

(* ------------------------------- state --------------------------------- *)

\* pc: "loop"      at the while test of run()
\*     "read"      inside get_key(), terminal raw, at select/read
\*     "dispatch"  get_key() has returned, at the if/elif chain
\*     "sleep"     at r.sleep()
\*     "break"     the loop was left by break
\*     "shutdown"  the loop was left because rospy.is_shutdown() held
\*     "raised"    an exception left run()
\*     "exited"    the interpreter has run its exit handlers
\* published: the publish calls made so far in the current tick
\* restored: the reset_terminal() calls made since the loop was left
\* r_streak: the number of ticks dispatched so far while every one of them
\*     was an r tick (at most MaxStreak), else Off
\* last_step: the key of the last dispatched tick and the head_angle it
\*     started from, when that tick was an r or v tick, else NoStep
Init ==
    /\ pc = "loop"
    /\ term = "cooked"
    /\ stdin = 0
    /\ is_shutdown = FALSE
    /\ \E sp \in Speeds : lin_vel = sp[1] /\ ang_vel = sp[2]
    /\ key = Unbound
    /\ cmd_vel = Twist
    /\ head_changed = FALSE
    /\ lift_changed = FALSE
    /\ head_angle = STD_HEAD_ANGLE
    /\ lift_height = STD_LIFT_HEIGHT
    /\ published = <<>>
    /\ restored = 0
    /\ r_streak = 0
    /\ last_step = NoStep

(* ---------------------------- environment ------------------------------ *)

\* the user types a character
Type ==
    /\ stdin # Eof
    /\ stdin < MaxPending
    /\ pc \notin {"exited"}
    /\ stdin' = stdin + 1
    /\ UNCHANGED <<pc, term, is_shutdown, lin_vel, ang_vel, key, cmd_vel,
                   head_changed, lift_changed, head_angle, lift_height,
                   published, restored, r_streak, last_step>>

\* a shutdown of the node is requested from outside (signal, master)
Shutdown ==
    /\ ~is_shutdown
    /\ pc \notin {"exited"}
    /\ is_shutdown' = TRUE
    /\ UNCHANGED <<pc, term, stdin, lin_vel, ang_vel, key, cmd_vel,
                   head_changed, lift_changed, head_angle, lift_height,
                   published, restored, r_streak, last_step>>

\* the terminal goes away: every later read returns end of input
Hangup ==
    /\ stdin # Eof
    /\ pc \notin {"exited"}
    /\ stdin' = Eof
    /\ UNCHANGED <<pc, term, is_shutdown, lin_vel, ang_vel, key, cmd_vel,
                   head_changed, lift_changed, head_angle, lift_height,
                   published, restored, r_streak, last_step>>

(* ------------------------------ the loop ------------------------------- *)

\* while not rospy.is_shutdown(): the test fails
LoopShutdown ==
    /\ pc = "loop"
    /\ is_shutdown
    /\ pc' = "shutdown"
    /\ UNCHANGED <<term, stdin, is_shutdown, lin_vel, ang_vel, key, cmd_vel,
                   head_changed, lift_changed, head_angle, lift_height,
                   published, restored, r_streak, last_step>>

\* the test passes: reset the twist and the flags, enter get_key() and
\* set the terminal raw
LoopEnter ==
    /\ pc = "loop"
    /\ ~is_shutdown
    /\ cmd_vel' = Twist
    /\ head_changed' = FALSE
    /\ lift_changed' = FALSE
    /\ published' = <<>>
    /\ term' = set_terminal(term)
    /\ pc' = "read"
    /\ UNCHANGED <<stdin, is_shutdown, lin_vel, ang_vel, key, head_angle,
                   lift_height, restored, r_streak, last_step>>

\* select with timeout 0 (result unused), read(1) takes a waiting character,
\* reset_terminal(), return
ReadKey ==
    /\ pc = "read"
    /\ stdin # Eof
    /\ stdin > 0
    /\ \E c \in Keys : key' = c
    /\ stdin' = stdin - 1
    /\ term' = reset_terminal(term)
    /\ pc' = "dispatch"
    /\ UNCHANGED <<is_shutdown, lin_vel, ang_vel, cmd_vel, head_changed,
                   lift_changed, head_angle, lift_height, published,
                   restored, r_streak, last_step>>

\* read(1) at end of input returns the empty string
ReadEof ==
    /\ pc = "read"
    /\ stdin = Eof
    /\ key' = NoKey
    /\ term' = reset_terminal(term)
    /\ pc' = "dispatch"
    /\ UNCHANGED <<stdin, is_shutdown, lin_vel, ang_vel, cmd_vel, head_changed,
                   lift_changed, head_angle, lift_height, published,
                   restored, r_streak, last_step>>

\* select or read raises: get_key() is left before reset_terminal()
ReadFail ==
    /\ pc = "read"
    /\ pc' = "raised"
    /\ UNCHANGED <<term, stdin, is_shutdown, lin_vel, ang_vel, key, cmd_vel,
                   head_changed, lift_changed, head_angle, lift_height,
                   published, restored, r_streak, last_step>>

\* key == '\x03': print, break
Break ==
    /\ pc = "dispatch"
    /\ IsInterrupt(key)
    /\ pc' = "break"
    /\ UNCHANGED <<term, stdin, is_shutdown, lin_vel, ang_vel, key, cmd_vel,
                   head_changed, lift_changed, head_angle, lift_height,
                   published, restored, r_streak, last_step>>

\* the elif chain and the publish calls
Dispatch ==
    /\ pc = "dispatch"
    /\ ~IsInterrupt(key)
    /\ cmd_vel' = CmdVelAfter(key, cmd_vel)
    /\ head_angle' = HeadAfter(key, head_angle)
    /\ lift_height' = LiftAfter(key, lift_height)
    /\ head_changed' = HeadKey(key)
    /\ lift_changed' = LiftKey(key)
    /\ published' = published \o Publishes(cmd_vel', head_changed', head_angle',
                                           lift_changed', lift_height')
    /\ last_step' = IF key \in {"r", "v"}
                     THEN [key |-> key, from |-> head_angle] ELSE NoStep
    /\ r_streak' = IF key = "r" /\ r_streak < MaxStreak
                    THEN r_streak + 1 ELSE Off
    /\ pc' = "sleep"
    /\ UNCHANGED <<term, stdin, is_shutdown, lin_vel, ang_vel, key, restored>>

\* r.sleep() returns
Sleep ==
    /\ pc = "sleep"
    /\ pc' = "loop"
    /\ UNCHANGED <<term, stdin, is_shutdown, lin_vel, ang_vel, key, cmd_vel,
                   head_changed, lift_changed, head_angle, lift_height,
                   published, restored, r_streak, last_step>>

\* r.sleep() raises because of a shutdown request
SleepInterrupted ==
    /\ pc = "sleep"
    /\ is_shutdown
    /\ pc' = "raised"
    /\ UNCHANGED <<term, stdin, is_shutdown, lin_vel, ang_vel, key, cmd_vel,
                   head_changed, lift_changed, head_angle, lift_height,
                   published, restored, r_streak, last_step>>

\* the script ends; the handler registered with atexit runs reset_terminal()
AtExit ==
    /\ pc \in {"break", "shutdown", "raised"}
    /\ term' = RunHandlers(ExitHandlers, term)
    /\ restored' = restored + Len(ExitHandlers)
    /\ pc' = "exited"
    /\ UNCHANGED <<stdin, is_shutdown, lin_vel, ang_vel, key, cmd_vel,
                   head_changed, lift_changed, head_angle, lift_height,
                   published, r_streak, last_step>>

Next ==
    \/ Type
    \/ Hangup
    \/ Shutdown
    \/ LoopShutdown
    \/ LoopEnter
    \/ ReadKey
    \/ ReadEof
    \/ ReadFail
    \/ Break
    \/ Dispatch
    \/ Sleep
    \/ SleepInterrupted
    \/ AtExit

Spec == Init /\ [][Next]_vars

TypeOK ==
    /\ pc \in {"loop", "read", "dispatch", "sleep", "break", "shutdown",
               "raised", "exited"}
    /\ term \in {"cooked", "raw"}
    /\ stdin \in (0..MaxPending) \cup {Eof}
    /\ is_shutdown \in BOOLEAN
    /\ <<lin_vel, ang_vel>> \in Speeds
    /\ key \in Keys \cup {NoKey, Unbound}
    /\ head_changed \in BOOLEAN
    /\ lift_changed \in BOOLEAN
    /\ head_angle \in Int
    /\ lift_height \in Int
    /\ Len(published) <= 3
    /\ restored \in 0..1
    /\ r_streak \in (0..MaxStreak) \cup {Off}
    /\ last_step.key \in {"r", "v", "none"}

(* ------------------------------ properties ----------------------------- *)

\* the messages of the current tick on one topic
OnChan(c) == SelectSeq(published, LAMBDA m : m.chan = c)

\* the loop is still running
Running == pc \in {"loop", "read", "dispatch", "sleep"}

\* C1: head_angle is always within [MIN_HEAD_ANGLE, MAX_HEAD_ANGLE]
\* (-25.0 .. 44.5), whatever keys have been read.
C1_HeadInRange ==
    /\ head_angle >= MIN_HEAD_ANGLE
    /\ head_angle <= MAX_HEAD_ANGLE

\* an r tick that was clamped at the top, after the lift was moved too
C1_Witness ==
    /\ pc = "sleep"
    /\ key = "r"
    /\ head_angle = MAX_HEAD_ANGLE
    /\ lift_height > MIN_LIFT_HEIGHT

\* C2: lift_height is always within [MIN_LIFT_HEIGHT, MAX_LIFT_HEIGHT]
\* (32.0 .. 92.0), whatever keys have been read.
C2_LiftInRange ==
    /\ lift_height >= MIN_LIFT_HEIGHT
    /\ lift_height <= MAX_LIFT_HEIGHT

\* a b tick that was clamped at the bottom, after the head was moved too
C2_Witness ==
    /\ pc = "sleep"
    /\ key = "b"
    /\ lift_height = MIN_LIFT_HEIGHT
    /\ head_angle < STD_HEAD_ANGLE

\* C3: every value published on lift_height equals
\* (lift_height - 32.0) / 60.0 for the lift_height held after the dispatch
\* and lies in [0, 1]; a t press from 32.0 publishes 2/60 and g publishes 0.
C3_LiftPublished ==
    /\ \A i \in DOMAIN published :
         published[i].chan = "lift_height" =>
           LET q == published[i].data IN
             /\ q.den > 0
             /\ q.num * (2 * 60) = (lift_height - 2 * 32) * q.den
             /\ 0 <= q.num
             /\ q.num <= q.den
    /\ (pc = "sleep" /\ key = "t" /\ lift_height = 2 * 34) =>
         OnChan("lift_height") =
           <<[chan |-> "lift_height", data |-> [num |-> 1, den |-> 30]]>>
    /\ (pc = "sleep" /\ key = "g") =>
         OnChan("lift_height") =
           <<[chan |-> "lift_height", data |-> [num |-> 0, den |-> 1]]>>

\* a t tick well inside the range has published a proper fraction
C3_Witness ==
    /\ pc = "sleep"
    /\ key = "t"
    /\ lift_height = 2 * 50
    /\ OnChan("lift_height") =
         <<[chan |-> "lift_height", data |-> [num |-> 3, den |-> 10]]>>

\* C4: a tick whose character is not Ctrl-C publishes cmd_vel exactly once,
\* whatever the character and whether or not head or lift changed.
C4_CmdVelOncePerTick ==
    [][(pc = "dispatch" /\ pc' # "dispatch" /\ key # CtrlC) =>
         /\ pc' = "sleep"
         /\ Len(OnChan("cmd_vel")) = 0
         /\ Len(OnChan("cmd_vel")') = 1]_vars

\* a tick with a key the loop does not know has published cmd_vel only
C4_Witness ==
    /\ pc = "sleep"
    /\ key = "x"
    /\ published = <<[chan |-> "cmd_vel", data |-> Twist]>>

C6_OptionalChannels ==
    /\ Len(OnChan("head_angle")) > 0 => key \in {"r", "f", "v"}
    /\ Len(OnChan("lift_height")) > 0 => key \in {"t", "g", "b"}
    /\ pc = "sleep" =>
         /\ key \in {"r", "f", "v"} => Len(OnChan("head_angle")) = 1
         /\ key \in {"t", "g", "b"} => Len(OnChan("lift_height")) = 1
    /\ Len(OnChan("head_angle")) = 0 \/ Len(OnChan("lift_height")) = 0
    /\ \A i \in DOMAIN published :
         published[i].chan = "head_angle" => published[i].data = head_angle

\* an f tick has published the centre angle on head_angle and nothing on
\* lift_height
C6_Witness ==
    /\ pc = "sleep"
    /\ key = "f"
    /\ OnChan("head_angle") =
         <<[chan |-> "head_angle", data |-> STD_HEAD_ANGLE]>>
    /\ OnChan("lift_height") = <<>>

\* C7: a tick that read Ctrl-C stops the loop, publishes nothing, leaves
\* head_angle and lift_height as they were, and the terminal is in its
\* startup mode when the loop has stopped this way.
C7_CtrlCStops ==
    [][(pc = "dispatch" /\ pc' # "dispatch" /\ key = CtrlC) =>
         /\ pc' = "break"
         /\ published = <<>>
         /\ published' = <<>>
         /\ head_angle' = head_angle
         /\ lift_height' = lift_height
         /\ term' = "cooked"]_vars

\* the loop was stopped by Ctrl-C with head and lift away from their
\* standard values
C7_Witness ==
    /\ pc = "break"
    /\ key = CtrlC
    /\ published = <<>>
    /\ term = "cooked"
    /\ head_angle = MAX_HEAD_ANGLE
    /\ lift_height = MAX_LIFT_HEIGHT

\* C8: an f tick sets head_angle to exactly 20.0 and a g tick sets
\* lift_height to exactly 32.0, whatever the value before.
C8_CenterKeys ==
    [][(pc = "dispatch" /\ pc' # "dispatch") =>
         /\ key = "f" => head_angle' = 2 * 20
         /\ key = "g" => lift_height' = 2 * 32]_vars

\* an f tick about to act on a head_angle at its upper clamp
C8_Witness ==
    /\ pc = "dispatch"
    /\ key = "f"
    /\ head_angle = MAX_HEAD_ANGLE

\* C9: a tick with no character pending does not wait: get_key() returns
\* at once (with the no-key result), so the tick can always go on.
C9_ReadNeverWaits ==
    (pc = "read" /\ stdin = 0) => ENABLED (ReadKey \/ ReadEof)

\* C10 as stated: once the loop has stopped, the last character read was
\* Ctrl-C.
C10_StoppedOnlyByCtrlC ==
    ~Running => key = CtrlC

\* C10: the loop leaves RUNNING only by the break of a tick that read
\* Ctrl-C, by rospy.is_shutdown() holding at the loop test, or by an
\* exception leaving the tick; after the break the last character read is
\* Ctrl-C.
C10_StopCauses ==
    [][(Running /\ ~Running') =>
         \/ pc = "dispatch" /\ key = CtrlC /\ pc' = "break"
         \/ pc = "loop" /\ is_shutdown /\ pc' = "shutdown"
         \/ pc \in {"read", "sleep"} /\ pc' = "raised"]_vars

\* the loop was left at the loop test after a tick with another key
C10_Witness ==
    /\ pc = "shutdown"
    /\ is_shutdown
    /\ key = "w"

\* C11: outside get_key() (loop test, interrupt check, dispatch, publish,
\* sleep, and after the loop was left normally) the terminal is in the mode
\* captured at start-up; it is raw only inside the character read.
C11_RawOnlyInGetKey ==
    /\ pc \in {"loop", "dispatch", "sleep", "break", "shutdown"} =>
         term = "cooked"
    /\ pc = "read" => term = "raw"

\* get_key() has returned a key: raw mode was entered and left again
C11_Witness ==
    /\ pc = "dispatch"
    /\ key = "a"
    /\ term = "cooked"
    /\ stdin = 0

\* C12: however the process ends (Ctrl-C, shutdown seen at the loop test,
\* an exception raised while the terminal is raw), the terminal ends in the
\* mode captured at start-up.
C12_RestoredAtExit ==
    pc = "exited" => term = "cooked"

\* the process ended without any key ever returned and without a shutdown
\* request: the first read failed with the terminal raw, and the exit
\* handler restored it
C12_Witness ==
    /\ pc = "exited"
    /\ key = Unbound
    /\ ~is_shutdown
    /\ term = "cooked"

\* C13: once the loop has been left nothing is read or published any more,
\* head_angle and lift_height stay, the loop is never re-entered, and
\* reset_terminal() runs exactly once after the stop.
C13_StoppedIsTerminal ==
    [][/\ ~Running =>
            /\ ~Running'
            /\ key' = key
            /\ stdin' = Eof \/ stdin' >= stdin
            /\ published' = published
            /\ head_angle' = head_angle
            /\ lift_height' = lift_height
       /\ Running' => restored' = 0
       /\ restored' <= 1
       /\ pc' = "exited" => restored' = 1]_vars

\* the process has ended after Ctrl-C, with a character typed afterwards
\* still unread
C13_Witness ==
    /\ pc = "exited"
    /\ key = CtrlC
    /\ restored = 1
    /\ stdin = 1

\* C14: a tick whose key is not r, f or v leaves head_angle unchanged, one
\* whose key is not t, g or b leaves lift_height unchanged, and a tick with
\* any other key (w, s, a, d, upper case, unknown, no key) publishes on
\* neither head_angle nor lift_height.
C14_OwnKeysOnly ==
    [][(pc = "dispatch" /\ pc' = "sleep") =>
         /\ key \notin {"r", "f", "v"} => head_angle' = head_angle
         /\ key \notin {"t", "g", "b"} => lift_height' = lift_height
         /\ key \notin {"r", "f", "v", "t", "g", "b"} =>
              /\ OnChan("head_angle")' = <<>>
              /\ OnChan("lift_height")' = <<>>]_vars

\* a tick with an upper-case R, with head and lift at their upper clamps
C14_Witness ==
    /\ pc = "sleep"
    /\ key = "R"
    /\ head_angle = MAX_HEAD_ANGLE
    /\ lift_height = MAX_LIFT_HEIGHT
    /\ Len(published) = 1

C16_PublishOrder ==
    [][/\ published' # published =>
            \/ pc = "dispatch" /\ pc' = "sleep"
            \/ pc = "loop" /\ pc' = "read" /\ published' = <<>>
       /\ (pc = "dispatch" /\ pc' = "sleep") =>
            /\ published = <<>>
            /\ published'[1].chan = "cmd_vel"
            /\ \A i \in 2..Len(published') :
                 published'[i].chan \in {"head_angle", "lift_height"}]_vars

\* a b tick has published cmd_vel and then lift_height
C16_Witness ==
    /\ pc = "sleep"
    /\ key = "b"
    /\ Len(published) = 2
    /\ published[1].chan = "cmd_vel"
    /\ published[2].chan = "lift_height"

\* C17: an r tick followed by a v tick returns head_angle to the value
\* before the r tick when that was at most 42.5, else leaves 42.5; a v tick
\* followed by an r tick returns it when it was at least -23.0, else
\* leaves -23.0.
C17_RoundTrip ==
    [][(pc = "dispatch" /\ pc' = "sleep") =>
         /\ (last_step.key = "r" /\ key = "v") =>
              head_angle' = IF last_step.from <= 85 THEN last_step.from ELSE 85
         /\ (last_step.key = "v" /\ key = "r") =>
              head_angle' = IF last_step.from >= -46 THEN last_step.from
                            ELSE -46]_vars

\* r from 44.0 then v: head_angle is 42.5, off the 20.0 + 2k grid
C17_Witness ==
    /\ pc = "sleep"
    /\ key = "v"
    /\ last_step = [key |-> "v", from |-> 89]
    /\ head_angle = 85
    /\ (head_angle - 40) % 4 # 0

\* C18: lift_height is always 32.0 + 2.0 * k for an integer k in 0..30, and
\* every value published on lift_height is k / 30.
C18_LiftOnGrid ==
    /\ (lift_height - 64) % 4 = 0
    /\ (lift_height - 64) \div 4 \in 0..30
    /\ \A i \in DOMAIN published :
         published[i].chan = "lift_height" =>
           published[i].data.num * 30 =
             ((lift_height - 64) \div 4) * published[i].data.den

\* a t tick clamped at 92.0 has published 30/30
C18_Witness ==
    /\ pc = "sleep"
    /\ key = "t"
    /\ lift_height = 184
    /\ OnChan("lift_height") =
         <<[chan |-> "lift_height", data |-> [num |-> 1, den |-> 1]]>>
====
